---- MODULE Spec2Model ----
(***************************************************************************)
(* Request authentication and installation handshake of the sticky-cart    *)
(* backend: the unified webhook endpoint and the OAuth callback of         *)
(* sticky-add-to-cart/server.js, together with the other server variants   *)
(* kept in the repository (the GDPR stub server and the two earlier        *)
(* handshake servers).                                                     *)
(*                                                                         *)
(* Strings are modelled by what the handlers can observe of them: a        *)
(* message is a sequence of tokens, a signature value is a record of its   *)
(* encoding, its length in bytes and the digest it encodes.  HMAC-SHA256   *)
(* is an ideal MAC: the digest determines the key and the message.         *)
(***************************************************************************)
EXTENDS Integers, Sequences, FiniteSets, TLC

\* ------------------------------------------------------------------ bounds
\* Number of requests the process receives in one behaviour.
MaxReqs == 1

Reqs == 1..MaxReqs

\* Number of requests in flight together in the specification of concurrent
\* load.
MaxConc == 2

ConcReqs == 1..MaxConc

\* ------------------------------------------------- digests and encodings
\* Length of digest('hex') of a SHA-256 HMAC (32 bytes, two characters each).
HexLen == 64
\* Length of digest('base64') of a SHA-256 HMAC (32 bytes, padded).
Base64Len == 44

\* crypto.createHmac('sha256', key).update(message): the 32-byte digest.
Hmac(key, message) == <<key, message>>

NoDigest == <<"", <<>>>>

\* .digest('hex')
Hex(d) == [enc |-> "hex", len |-> HexLen, of |-> d]

\* .digest('base64')
Base64(d) == [enc |-> "base64", len |-> Base64Len, of |-> d]

\* A header or parameter that was not sent (undefined in the handler).
Absent == [enc |-> "absent", len |-> 0, of |-> NoDigest]

\* A string that encodes no digest at all, n characters long ("" for n = 0).
Junk(n) == [enc |-> "junk", len |-> n, of |-> NoDigest]

\* The JavaScript test !v on a header, a parameter or an environment value.
Falsy(v) == v.enc = "absent" \/ v.len = 0

\* A comparison of the digests two signatures encode, whatever the encoding
\* of each.
EncodingBlindEqual(a, b) ==
  IF a.of = b.of /\ b.enc \in {"hex", "base64"} THEN "true" ELSE "false"

\* crypto.timingSafeEqual(Buffer.from(a, 'utf8'), Buffer.from(b, 'utf8')):
\* throws a RangeError when the byte lengths differ.
TimingSafeEqual(a, b) ==
  IF a.len # b.len THEN "throw"
  ELSE IF a = b THEN "true" ELSE "false"

\* The bytes a comparison of two strings of n bytes reads before it answers;
\* firstDiff is the position of the first byte in which they differ, 0 when
\* they are equal.
\* generatedHmac !== hmac: the comparison of the engine ends at the first
\* differing byte.
StrictInequalityCost(firstDiff, n) == IF firstDiff = 0 THEN n ELSE firstDiff

\* crypto.timingSafeEqual: every byte is read, wherever the difference is.
TimingSafeEqualCost(firstDiff, n) == n

\* The comparison of the unified webhook endpoint (server.js line 53).
WebhookCompareCost(firstDiff) == StrictInequalityCost(firstDiff, Base64Len)

\* The comparison of verifyOAuthHmac (server.js lines 136-139).
OAuthCompareCost(firstDiff) == TimingSafeEqualCost(firstDiff, HexLen)

\* ------------------------------------------------------ query parameters
\* A parsed query (req.query) is the sequence of its <<key, value>> pairs in
\* arrival order; keys are unique.  The value of hmac is a signature value,
\* every other value is a string ("" for a parameter sent empty).

\* Position of a key in the order Array.prototype.sort() puts strings in
\* (UTF-16 code units ascending).
KeyRank(k) ==
  CASE k = "code" -> 1
    [] k = "hmac" -> 2
    [] k = "host" -> 3
    [] k = "shop" -> 4
    [] k = "state" -> 5

HasKey(query, k) == \E i \in 1..Len(query) : query[i][1] = k

\* query[k]; a key that is not present reads as undefined.
Get(query, k) ==
  IF HasKey(query, k) THEN query[CHOOSE i \in 1..Len(query) : query[i][1] = k][2]
  ELSE "undefined"

\* !query[k] for a string parameter: not sent, or sent empty.
Missing(query, k) == ~HasKey(query, k) \/ Get(query, k) = ""

\* const { hmac, ...params } = query: the provided signature.
HmacOf(query) == IF HasKey(query, "hmac") THEN Get(query, "hmac") ELSE Absent

\* const { hmac, ...params } = query: the remaining parameters, order kept.
RECURSIVE Rest(_)
Rest(query) ==
  IF query = <<>> THEN <<>>
  ELSE IF Head(query)[1] = "hmac" THEN Rest(Tail(query))
       ELSE <<Head(query)>> \o Rest(Tail(query))

\* Object.keys(params)
RECURSIVE ObjectKeys(_)
ObjectKeys(params) ==
  IF params = <<>> THEN <<>>
  ELSE <<Head(params)[1]>> \o ObjectKeys(Tail(params))

RECURSIVE Insert(_, _)
Insert(k, sorted) ==
  IF sorted = <<>> THEN <<k>>
  ELSE IF KeyRank(k) <= KeyRank(Head(sorted)) THEN <<k>> \o sorted
       ELSE <<Head(sorted)>> \o Insert(k, Tail(sorted))

\* The keys left in their arrival order.
UnsortedKeys(keys) == keys

\* .sort()
RECURSIVE Sort(_)
Sort(keys) ==
  IF keys = <<>> THEN <<>>
  ELSE Insert(Head(keys), Sort(Tail(keys)))

\* .map(key => `${key}=${params[key]}`).join('&'), as a sequence of tokens.
RECURSIVE MapJoin(_, _)
MapJoin(keys, params) ==
  IF keys = <<>> THEN <<>>
  ELSE <<Head(keys), "=", Get(params, Head(keys))>>
       \o (IF Tail(keys) = <<>> THEN <<>> ELSE <<"&">>)
       \o MapJoin(Tail(keys), params)

\* The message verifyOAuthHmac signs.
OAuthMessage(query) == MapJoin(Sort(ObjectKeys(Rest(query))), Rest(query))

\* The statements verifyOAuthHmac executes for a query, in order: it returns
\* at line 124 when hmac is missing, before the message and the digest.
OAuthVerifySteps(query) ==
  IF Falsy(HmacOf(query)) THEN <<"read_hmac", "return_false">>
  ELSE <<"read_hmac", "message", "digest", "compare">>

\* verifyOAuthHmac without the test of line 124.
GuardlessVerifyOAuthHmac(secret, query) ==
  TimingSafeEqual(Hex(Hmac(secret, OAuthMessage(query))), HmacOf(query))

\* verifyOAuthHmac(query) -> "true" | "false" | "throw"
verifyOAuthHmac(secret, query) ==
  LET hmac == HmacOf(query)
      generated == Hex(Hmac(secret, OAuthMessage(query)))
  IN IF Falsy(hmac) THEN "false"
     ELSE TimingSafeEqual(generated, hmac)

\* -------------------------------------------------------------- responses
NoLocation == <<>>

\* No response sent yet.
NoResp == [status |-> 0, body |-> "", location |-> NoLocation]

\* res.status(code).send(text)
Send(code, text) == [status |-> code, body |-> text, location |-> NoLocation]

\* res.redirect(url): 302 with a Location header.
Redirect(url) == [status |-> 302, body |-> "", location |-> url]

\* A synchronous throw in a handler: Express's error handling answers 500.
ErrorResp == Send(500, "Internal Server Error")

\* ----------------------------------------------------- webhook deliveries
ComplianceTopics == {"customers/data_request", "customers/redact", "shop/redact"}

\* Values of the X-Shopify-Topic header; "" is a delivery without the header.
Topics == ComplianceTopics \cup {"app/uninstalled", "orders/create", ""}

\* Raw bodies, as token sequences.  The second one is the text of an OAuth
\* message.
Bodies == { <<"{\"a\":1}">>, <<"code", "=", "abc", "&", "shop", "=", "s1.myshopify.com">> }

\* express.text({ type: 'application/json' }): req.body is the raw text when
\* the content type matches, and is left a non-string (an object) otherwise.
ExpressText(ctype, raw) ==
  IF ctype = "application/json"
    THEN [isString |-> TRUE, text |-> raw]
    ELSE [isString |-> FALSE, text |-> <<>>]

\* The body parsers of the handshake layout with app.use(express.json()) and
\* app.use(express.urlencoded()) registered before the webhook route.
ParsersFirstPipeline(v) == <<"json", "urlencoded", "text">>

\* The body parsers a webhook delivery passes before its handler runs, in
\* order.  server.js and the handshake servers mount express.text on the
\* route and register the global parsers after it, where a delivery never
\* arrives; the stub server registers express.json() first.
Pipeline(v) == IF v = "stub" THEN <<"json">> ELSE <<"text">>

\* req.body after the parsers ran: the first parser whose type matches the
\* content type sets it, the later ones skip a body already parsed.
\* express.json() and express.urlencoded() leave an object, express.text
\* the raw text.
RECURSIVE BodySeen(_, _, _)
BodySeen(parsers, ctype, raw) ==
  IF parsers = <<>> THEN [isString |-> FALSE, text |-> <<>>]
  ELSE IF Head(parsers) = "json" /\ ctype = "application/json"
         THEN [isString |-> FALSE, text |-> <<>>]
  ELSE IF Head(parsers) = "urlencoded" /\ ctype = "application/x-www-form-urlencoded"
         THEN [isString |-> FALSE, text |-> <<>>]
  ELSE IF Head(parsers) = "text" /\ ctype = "application/json"
         THEN ExpressText(ctype, raw)
  ELSE BodySeen(Tail(parsers), ctype, raw)

\* What a handler did, in program order, and what it answered.
Outcome(r, t) == [resp |-> r, trace |-> t]

\* server.js, lines 64-70, with a data operation awaited before the
\* acknowledgment of a compliance topic.
AwaitingTopicSteps(topic) ==
  IF topic \in ComplianceTopics THEN <<"classify", "downstream_call", "respond">>
  ELSE IF topic = "app/uninstalled"
         THEN <<"classify", "handle_uninstalled", "respond">>
         ELSE <<"classify", "respond">>

\* The steps of the unified endpoint after a delivery verified, in program
\* order: the topic tests, the app/uninstalled branch, the response.
TopicSteps(topic) ==
  IF topic \in ComplianceTopics THEN <<"classify", "respond">>
  ELSE IF topic = "app/uninstalled"
         THEN <<"classify", "handle_uninstalled", "respond">>
         ELSE <<"classify", "respond">>

\* The signature test of the unified endpoint with the digest taken in the
\* encoding of the other mode.
HexSignatureCheck(secret, hmac, body) ==
  IF Falsy(hmac) THEN "reject"
  ELSE IF ~body.isString THEN "throw"
  ELSE IF Hex(Hmac(secret, body.text)) # hmac THEN "reject"
  ELSE "ok"

\* server.js lines 41-58: "reject" (401), "throw" (update() of a non-string)
\* or "ok".
SignatureCheck(secret, hmac, body) ==
  IF Falsy(hmac) THEN "reject"
  ELSE IF ~body.isString THEN "throw"
  ELSE IF Base64(Hmac(secret, body.text)) # hmac THEN "reject"
  ELSE "ok"

\* app.post('/api/webhooks') of server.js.
UnifiedWebhook(secret, hmac, topic, body) ==
  LET v == SignatureCheck(secret, hmac, body)
  IN CASE v = "reject" -> Outcome(Send(401, "Unauthorized"), <<"verify", "respond">>)
       [] v = "throw" -> Outcome(ErrorResp, <<"verify", "throw", "respond">>)
       [] v = "ok" -> Outcome(Send(200, "OK"), <<"verify">> \o TopicSteps(topic))

\* The four webhook routes of the GDPR stub server: no signature is read.
StubRoutes ==
  {"/api/webhooks/customers/data_request", "/api/webhooks/customers/redact",
   "/api/webhooks/shop/redact", "/webhooks"}

StubWebhook(route) == Outcome(Send(200, "json"), <<"respond">>)

\* app.post('/api/webhooks/app-uninstalled') of the first handshake server.
UninstalledWebhook(secret, hmac, body) ==
  IF Falsy(hmac) THEN Outcome(Send(401, "Unauthorized"), <<"verify", "respond">>)
  ELSE IF ~body.isString THEN Outcome(ErrorResp, <<"verify", "throw", "respond">>)
  ELSE IF Base64(Hmac(secret, body.text)) # hmac
         THEN Outcome(Send(401, "Unauthorized"), <<"verify", "respond">>)
         ELSE Outcome(Send(200, "OK"), <<"verify", "respond">>)

\* app.post('/api/webhooks') of the second handshake server: no test for a
\* missing header, the digest is compared with whatever was sent.
PlainWebhook(secret, hmac, body) ==
  IF ~body.isString THEN Outcome(ErrorResp, <<"verify", "throw", "respond">>)
  ELSE IF Base64(Hmac(secret, body.text)) # hmac
         THEN Outcome(Send(401, "Unauthorized"), <<"verify", "respond">>)
         ELSE Outcome(Send(200, "OK"), <<"verify", "respond">>)

\* ---------------------------------------------------------- OAuth callback
ShopDomain == "s1.myshopify.com"

\* shop.replace('.myshopify.com', '')
ShopReplace(shop) == IF shop = "s1.myshopify.com" THEN "s1" ELSE shop

\* A parameter that is sent contributes one pair; "-" stands for not sent.
Opt(k, v) == IF v = "-" THEN <<>> ELSE << <<k, v>> >>

\* The parameter sets a callback may carry, hmac left out, in two arrival
\* orders.
BaseQueries ==
  UNION { { Opt("shop", s) \o Opt("code", c) \o Opt("host", h),
            Opt("host", h) \o Opt("code", c) \o Opt("shop", s) } :
          <<s, c, h>> \in {"-", "", ShopDomain} \X {"-", "abc"} \X {"-", "aG9zdA"} }

\* The values the hmac parameter may have for a message, as a sender who
\* knows the secret, or one who does not, can produce them.
HmacChoices(secret, message) ==
  { Absent, Junk(0), Junk(3),
    Hex(Hmac(secret, message)), Hex(Hmac("guess", message)),
    Base64(Hmac(secret, message)) }

\* The callback queries: a parameter set, and an hmac value after it unless
\* none is sent.
Queries(secret) ==
  UNION { { IF sig = Absent THEN base ELSE base \o << <<"hmac", sig>> >> :
            sig \in HmacChoices(secret, OAuthMessage(base)) } :
          base \in BaseQueries }

\* The responses the platform may give to the token exchange: the fetch
\* rejects, or resolves to a response that is ok or not and whose body is a
\* JSON object with an access_token, one without, or no JSON at all.
ExchangeOutcomes ==
  { [threw |-> TRUE, ok |-> FALSE, body |-> "none"] } \cup
  { [threw |-> FALSE, ok |-> TRUE, body |-> b] : b \in {"token", "no_token", "not_json"} } \cup
  { [threw |-> FALSE, ok |-> FALSE, body |-> b] : b \in {"no_token", "not_json"} }

\* The responses the platform may give to the registration call.
RegistrationOutcomes == {"ok", "nonok", "threw"}

\* The variants of the server kept in the repository.
Variants == {"server", "stub", "handshakeA", "handshakeB"}

\* The callback with the signature test put before the parameter test.
VerifyFirstEntry(variant, secret, query) ==
  LET v == verifyOAuthHmac(secret, query)
  IN CASE v = "false" -> "401"
       [] v = "throw" -> "throw"
       [] v = "true" ->
            IF Missing(query, "shop") \/ Missing(query, "code")
               \/ (variant # "server" /\ Missing(query, "host"))
              THEN "400" ELSE "exchange"

\* The text of the 400 of the callback.
MissingParamsBody(variant) ==
  IF variant = "handshakeB" THEN "Missing OAuth params" ELSE "Missing OAuth parameters"

\* The text of the 401 of the callback.
InvalidHmacBody(variant) ==
  IF variant = "handshakeB" THEN "Invalid HMAC" ELSE "Invalid OAuth HMAC"

\* Lines 209-218 of server.js (and the same lines of the handshake servers,
\* which also require host): "400", "401", "throw" or "exchange".
CallbackEntry(variant, secret, query) ==
  IF Missing(query, "shop") \/ Missing(query, "code")
     \/ (variant # "server" /\ Missing(query, "host"))
    THEN "400"
    ELSE LET v == verifyOAuthHmac(secret, query)
         IN CASE v = "false" -> "401"
              [] v = "throw" -> "throw"
              [] v = "true" -> "exchange"

\* The callback of the handshake servers in place of the one of server.js:
\* no test of tokenRes.ok.
UncheckedAfterExchange(variant, o) ==
  IF o.threw THEN "catch"
  ELSE IF o.body = "not_json" THEN "catch"
  ELSE "register"

\* What follows the token exchange: "catch" (the catch block answers 500),
\* "not_ok" (line 235 answers 500) or "register".
AfterExchange(variant, o) ==
  IF o.threw THEN "catch"
  ELSE IF variant = "server" /\ ~o.ok THEN "not_ok"
  ELSE IF o.body = "not_json" THEN "catch"
  ELSE "register"

\* registerWebhooks of the handshake servers in place of the one of
\* server.js: no try/catch around the call.
UnguardedRegisterWebhooks(variant, o) ==
  IF o = "threw" THEN "throws" ELSE "returns"

\* registerWebhooks(shop, accessToken), once its call has ended with o:
\* "returns" or "throws".  server.js catches every failure.
registerWebhooks(variant, o) ==
  IF variant = "server" THEN "returns"
  ELSE IF o = "threw" THEN "throws" ELSE "returns"

\* The redirect of the handshake servers in place of the one of server.js:
\* a page served by this system.
OwnPageTarget(variant, apiKey, query) ==
  <<"/app?shop=", Get(query, "shop")>>

\* The URL the callback redirects to after registration.
RedirectTarget(variant, apiKey, query) ==
  IF variant = "server"
    THEN <<"https://admin.shopify.com/store/", ShopReplace(Get(query, "shop")),
           "/apps/", apiKey>>
    ELSE <<"/app?shop=", Get(query, "shop"), "&host=", Get(query, "host")>>

\* The registration request with the address of the first handshake server
\* kept in every variant.
StaleAddressRegistrationCall(variant, host, query, accessToken) ==
  [kind |-> "register", shop |-> Get(query, "shop"), code |-> "",
   token |-> accessToken, topic |-> "app/uninstalled",
   address |-> <<host, "/api/webhooks/app-uninstalled">>]

\* The routes on which a variant mounts a webhook handler that compares the
\* signature header with the digest of the body.
VerifiedRoutes(v) ==
  CASE v = "server" -> {"/api/webhooks"}
    [] v = "handshakeA" -> {"/api/webhooks/app-uninstalled"}
    [] v = "handshakeB" -> {"/api/webhooks"}
    [] v = "stub" -> {}

\* The registration request registerWebhooks sends.
RegistrationCall(variant, host, query, accessToken) ==
  [kind |-> "register", shop |-> Get(query, "shop"), code |-> "",
   token |-> accessToken, topic |-> "app/uninstalled",
   address |-> IF variant = "handshakeA"
                 THEN <<host, "/api/webhooks/app-uninstalled">>
                 ELSE <<host, "/api/webhooks">>]

\* The token-exchange request of the callback.
ExchangeCall(query) ==
  [kind |-> "exchange", shop |-> Get(query, "shop"), code |-> Get(query, "code"),
   token |-> 0, topic |-> "", address |-> <<>>]

\* ------------------------------------------------------------------ /auth
\* The values of the shop parameter of GET /auth: not sent, sent empty, a
\* shop domain of the platform, and a host that is none.
AuthShops == {"-", "", ShopDomain, "evil.example/x"}

\* process.env.SCOPES || 'write_themes'
Scopes == "write_themes"

\* encodeURIComponent(`${HOST}/auth/callback`), as tokens.
EncodedRedirectUri(host) ==
  <<IF host = "https://app.example" THEN "https%3A%2F%2Fapp.example" ELSE host,
    "%2Fauth%2Fcallback">>

\* installUrl of GET /auth.
InstallUrl(shop, apiKey, host) ==
  <<"https://", shop, "/admin/oauth/authorize", "?client_id=", apiKey,
    "&scope=", Scopes, "&redirect_uri=">> \o EncodedRedirectUri(host)

\* app.get('/auth'): the shop parameter is tested for presence only.
AuthHandler(v, apiKey, host, query) ==
  IF Missing(query, "shop")
    THEN Outcome(Send(400, IF v = "handshakeB" THEN "Missing shop"
                           ELSE "Missing shop parameter"),
                 <<"check_params", "respond">>)
    ELSE Outcome(Redirect(InstallUrl(Get(query, "shop"), apiKey, host)),
                 <<"check_params", "build_url", "respond">>)

\* ------------------------------------------------------------------- state
VARIABLES
  variant,   \* which server of the repository the process runs
  config,    \* process.env: SHOPIFY_API_KEY, SHOPIFY_API_SECRET, HOST
  proc,      \* "starting", "listening" or "exited"
  platform,  \* "up", or "hang": the platform answers no outbound call
  req,       \* per request: what was received
  pc,        \* per request: "new", "await_token", "await_register", "done",
             \* or "unanswered" (the handler ended without a response)
  resp,      \* per request: the response sent, NoResp before
  trace,     \* per request: the steps the handler took, in order
  calls,     \* per request: the outbound calls it started, in order
  upstream,  \* per request: how the platform answered those calls
  token      \* per request: access_token of the callback, 0 when undefined

vars == <<variant, config, proc, platform, req, pc, resp, trace, calls, upstream, token>>

NoReq ==
  [route |-> "", hmac |-> Absent, topic |-> "", ctype |-> "", raw |-> <<>>,
   query |-> <<>>]

WebhookReq(route, hmac, topic, ctype, raw) ==
  [route |-> route, hmac |-> hmac, topic |-> topic, ctype |-> ctype, raw |-> raw,
   query |-> <<>>]

CallbackReq(query) ==
  [route |-> "/auth/callback", hmac |-> Absent, topic |-> "", ctype |-> "",
   raw |-> <<>>, query |-> query]

AuthReq(query) ==
  [route |-> "/auth", hmac |-> Absent, topic |-> "", ctype |-> "", raw |-> <<>>,
   query |-> query]

\* No outbound call of the request has been answered.
NoUpstream ==
  [exchange |-> [threw |-> FALSE, ok |-> FALSE, body |-> "pending"],
   registration |-> "pending"]

\* The values an environment variable may have: "" is unset.
Configs ==
  [apiKey : {"", "key1"}, secret : {"", "shhh"}, host : {"", "https://app.example"}]

Init ==
  /\ variant \in Variants
  /\ config \in Configs
  /\ proc = "starting"
  /\ platform = "up"
  /\ req = [r \in Reqs |-> NoReq]
  /\ pc = [r \in Reqs |-> "new"]
  /\ resp = [r \in Reqs |-> NoResp]
  /\ trace = [r \in Reqs |-> <<>>]
  /\ calls = [r \in Reqs |-> <<>>]
  /\ upstream = [r \in Reqs |-> NoUpstream]
  /\ token = [r \in Reqs |-> 0]

\* The environment test without the test of HOST.
HostlessEnvCheck(v, c) ==
  IF v # "stub" /\ (c.apiKey = "" \/ c.secret = "")
    THEN "exited" ELSE "listening"

\* The environment test at load time and app.listen.  The stub server has no
\* such test.
EnvCheck(v, c) ==
  IF v # "stub" /\ (c.apiKey = "" \/ c.secret = "" \/ c.host = "")
    THEN "exited" ELSE "listening"

Startup ==
  /\ proc = "starting"
  /\ proc' = EnvCheck(variant, config)
  /\ UNCHANGED <<variant, config, platform, req, pc, resp, trace, calls, upstream, token>>

\* The header values a delivery of the body raw may carry.
SigChoices(secret, raw) ==
  { Absent, Junk(0),
    Base64(Hmac(secret, raw)), Base64(Hmac("guess", raw)), Hex(Hmac(secret, raw)) }

\* The content type and the raw body of a delivery.
Payloads ==
  { <<"application/json", raw>> : raw \in Bodies } \cup { <<"text/plain", <<"{\"a\":1}">> >> }

\* A synchronous handler: the request is received and answered in one step.
Answer(r, received, out) ==
  /\ req' = [req EXCEPT ![r] = received]
  /\ resp' = [resp EXCEPT ![r] = out.resp]
  /\ trace' = [trace EXCEPT ![r] = out.trace]
  /\ pc' = [pc EXCEPT ![r] = "done"]
  /\ UNCHANGED <<variant, config, proc, platform, calls, upstream, token>>

\* The unified endpoint with a record of the bodies already handled kept
\* across requests: a verified body handled before is acknowledged with its
\* topic handling skipped.
DedupingWebhookDelivery(r) ==
  /\ proc = "listening" /\ variant = "server" /\ pc[r] = "new"
  /\ \E topic \in Topics, <<ctype, raw>> \in Payloads :
       \E hmac \in SigChoices(config.secret, raw) :
         LET out == UnifiedWebhook(config.secret, hmac, topic,
                                   BodySeen(Pipeline(variant), ctype, raw))
             seen == \E o \in DOMAIN req :
                       /\ o # r /\ pc[o] = "done" /\ req[o].raw = raw
                       /\ req[o].route = "/api/webhooks" /\ resp[o] = Send(200, "OK")
         IN Answer(r, WebhookReq("/api/webhooks", hmac, topic, ctype, raw),
                   IF seen /\ out.resp = Send(200, "OK")
                     THEN Outcome(Send(200, "OK"), <<"verify", "duplicate", "respond">>)
                     ELSE out)

\* POST /api/webhooks of server.js.
UnifiedWebhookDelivery(r) ==
  /\ proc = "listening" /\ variant = "server" /\ pc[r] = "new"
  /\ \E topic \in Topics, <<ctype, raw>> \in Payloads :
       \E hmac \in SigChoices(config.secret, raw) :
         Answer(r, WebhookReq("/api/webhooks", hmac, topic, ctype, raw),
                UnifiedWebhook(config.secret, hmac, topic, BodySeen(Pipeline(variant), ctype, raw)))

\* POST to one of the four webhook routes of the stub server.
StubWebhookDelivery(r) ==
  /\ proc = "listening" /\ variant = "stub" /\ pc[r] = "new"
  /\ \E route \in StubRoutes, topic \in {"customers/redact", ""}, <<ctype, raw>> \in Payloads :
       \E hmac \in SigChoices(config.secret, raw) :
         Answer(r, WebhookReq(route, hmac, topic, ctype, raw), StubWebhook(route))

\* POST /api/webhooks/app-uninstalled of the first handshake server.
UninstalledWebhookDelivery(r) ==
  /\ proc = "listening" /\ variant = "handshakeA" /\ pc[r] = "new"
  /\ \E topic \in Topics, <<ctype, raw>> \in Payloads :
       \E hmac \in SigChoices(config.secret, raw) :
         Answer(r, WebhookReq("/api/webhooks/app-uninstalled", hmac, topic, ctype, raw),
                UninstalledWebhook(config.secret, hmac, BodySeen(Pipeline(variant), ctype, raw)))

\* POST /api/webhooks of the second handshake server.
PlainWebhookDelivery(r) ==
  /\ proc = "listening" /\ variant = "handshakeB" /\ pc[r] = "new"
  /\ \E topic \in Topics, <<ctype, raw>> \in Payloads :
       \E hmac \in SigChoices(config.secret, raw) :
         Answer(r, WebhookReq("/api/webhooks", hmac, topic, ctype, raw),
                PlainWebhook(config.secret, hmac, BodySeen(Pipeline(variant), ctype, raw)))

\* GET /auth of server.js and of the two handshake servers.
AuthRequest(r) ==
  /\ proc = "listening" /\ variant # "stub" /\ pc[r] = "new"
  /\ \E shop \in AuthShops :
       Answer(r, AuthReq(Opt("shop", shop)),
              AuthHandler(variant, config.apiKey, config.host, Opt("shop", shop)))

\* GET /auth/callback up to its first await: the parameter test, the
\* signature test and the start of the token exchange.  A throw of
\* verifyOAuthHmac is outside the try block: the promise of the handler
\* rejects, which the router either turns into a 500 or leaves unanswered,
\* depending on the Express release installed.
CallbackRequest(r) ==
  /\ proc = "listening" /\ variant # "stub" /\ pc[r] = "new"
  /\ \E query \in Queries(config.secret) :
       LET e == CallbackEntry(variant, config.secret, query)
       IN /\ req' = [req EXCEPT ![r] = CallbackReq(query)]
          /\ \/ /\ e = "400"
                /\ resp' = [resp EXCEPT ![r] = Send(400, MissingParamsBody(variant))]
                /\ trace' = [trace EXCEPT ![r] = <<"check_params", "respond">>]
                /\ pc' = [pc EXCEPT ![r] = "done"]
                /\ UNCHANGED calls
             \/ /\ e = "401"
                /\ resp' = [resp EXCEPT ![r] = Send(401, InvalidHmacBody(variant))]
                /\ trace' = [trace EXCEPT ![r] = <<"check_params", "verify", "respond">>]
                /\ pc' = [pc EXCEPT ![r] = "done"]
                /\ UNCHANGED calls
             \/ /\ e = "throw"
                /\ resp' = [resp EXCEPT ![r] = ErrorResp]
                /\ trace' = [trace EXCEPT ![r] = <<"check_params", "verify", "throw", "respond">>]
                /\ pc' = [pc EXCEPT ![r] = "done"]
                /\ UNCHANGED calls
             \/ /\ e = "throw"
                /\ trace' = [trace EXCEPT ![r] = <<"check_params", "verify", "throw">>]
                /\ pc' = [pc EXCEPT ![r] = "unanswered"]
                /\ UNCHANGED <<resp, calls>>
             \/ /\ e = "exchange"
                /\ calls' = [calls EXCEPT ![r] = <<ExchangeCall(query)>>]
                /\ trace' = [trace EXCEPT ![r] = <<"check_params", "verify", "exchange_call">>]
                /\ pc' = [pc EXCEPT ![r] = "await_token"]
                /\ UNCHANGED resp
  /\ UNCHANGED <<variant, config, proc, platform, upstream, token>>

\* The callback with the access token kept in a variable of the module: the
\* registration call of a request is sent with the token another request
\* stored, when one did.
SharedTokenExchangeReturns(r) ==
  /\ pc[r] = "await_token" /\ platform = "up"
  /\ \E o \in ExchangeOutcomes :
       LET a == AfterExchange(variant, o)
           holders == {p \in DOMAIN token : token[p] # 0}
           access_token == IF o.body # "token" THEN 0
                           ELSE IF holders = {} THEN r
                           ELSE token[CHOOSE p \in holders : \A q \in holders : p <= q]
       IN /\ upstream' = [upstream EXCEPT ![r].exchange = o]
          /\ \/ /\ a = "catch"
                /\ resp' = [resp EXCEPT ![r] = Send(500, "OAuth failed")]
                /\ trace' = [trace EXCEPT ![r] = @ \o <<"exchange_return", "throw", "respond">>]
                /\ pc' = [pc EXCEPT ![r] = "done"]
                /\ UNCHANGED <<calls, token>>
             \/ /\ a = "not_ok"
                /\ resp' = [resp EXCEPT ![r] = Send(500, "Failed to exchange token")]
                /\ trace' = [trace EXCEPT ![r] = @ \o <<"exchange_return", "respond">>]
                /\ pc' = [pc EXCEPT ![r] = "done"]
                /\ UNCHANGED <<calls, token>>
             \/ /\ a = "register"
                /\ token' = [token EXCEPT ![r] = access_token]
                /\ calls' = [calls EXCEPT ![r] =
                     @ \o <<RegistrationCall(variant, config.host, req[r].query, access_token)>>]
                /\ trace' = [trace EXCEPT ![r] = @ \o <<"exchange_return", "register_call">>]
                /\ pc' = [pc EXCEPT ![r] = "await_register"]
                /\ UNCHANGED resp
  /\ UNCHANGED <<variant, config, proc, platform, req>>

\* The token exchange is answered: the callback runs from the await of the
\* fetch to the await of the registration call, or to its 500.
TokenExchangeReturns(r) ==
  /\ pc[r] = "await_token" /\ platform = "up"
  /\ \E o \in ExchangeOutcomes :
       LET a == AfterExchange(variant, o)
           access_token == IF o.body = "token" THEN r ELSE 0
       IN /\ upstream' = [upstream EXCEPT ![r].exchange = o]
          /\ \/ /\ a = "catch"
                /\ resp' = [resp EXCEPT ![r] = Send(500, "OAuth failed")]
                /\ trace' = [trace EXCEPT ![r] = @ \o <<"exchange_return", "throw", "respond">>]
                /\ pc' = [pc EXCEPT ![r] = "done"]
                /\ UNCHANGED <<calls, token>>
             \/ /\ a = "not_ok"
                /\ resp' = [resp EXCEPT ![r] = Send(500, "Failed to exchange token")]
                /\ trace' = [trace EXCEPT ![r] = @ \o <<"exchange_return", "respond">>]
                /\ pc' = [pc EXCEPT ![r] = "done"]
                /\ UNCHANGED <<calls, token>>
             \/ /\ a = "register"
                /\ token' = [token EXCEPT ![r] = access_token]
                /\ calls' = [calls EXCEPT ![r] =
                     @ \o <<RegistrationCall(variant, config.host, req[r].query, access_token)>>]
                /\ trace' = [trace EXCEPT ![r] = @ \o <<"exchange_return", "register_call">>]
                /\ pc' = [pc EXCEPT ![r] = "await_register"]
                /\ UNCHANGED resp
  /\ UNCHANGED <<variant, config, proc, platform, req>>

\* The registration call is answered: registerWebhooks ends and the callback
\* runs to its response.
RegistrationReturns(r) ==
  /\ pc[r] = "await_register" /\ platform = "up"
  /\ \E o \in RegistrationOutcomes :
       /\ upstream' = [upstream EXCEPT ![r].registration = o]
       /\ \/ /\ registerWebhooks(variant, o) = "returns"
             /\ resp' = [resp EXCEPT ![r] =
                  Redirect(RedirectTarget(variant, config.apiKey, req[r].query))]
             /\ trace' = [trace EXCEPT ![r] = @ \o <<"register_return", "respond">>]
          \/ /\ registerWebhooks(variant, o) = "throws"
             /\ resp' = [resp EXCEPT ![r] = Send(500, "OAuth failed")]
             /\ trace' = [trace EXCEPT ![r] = @ \o <<"register_return", "throw", "respond">>]
       /\ pc' = [pc EXCEPT ![r] = "done"]
  /\ UNCHANGED <<variant, config, proc, platform, req, calls, token>>

\* The platform stops or resumes answering outbound calls.
PlatformChange ==
  /\ proc = "listening"
  /\ platform' = IF platform = "up" THEN "hang" ELSE "up"
  /\ UNCHANGED <<variant, config, proc, req, pc, resp, trace, calls, upstream, token>>

Next ==
  \/ Startup
  \/ PlatformChange
  \/ \E r \in Reqs : UnifiedWebhookDelivery(r)
  \/ \E r \in Reqs : StubWebhookDelivery(r)
  \/ \E r \in Reqs : UninstalledWebhookDelivery(r)
  \/ \E r \in Reqs : PlainWebhookDelivery(r)
  \/ \E r \in Reqs : AuthRequest(r)
  \/ \E r \in Reqs : CallbackRequest(r)
  \/ \E r \in Reqs : TokenExchangeReturns(r)
  \/ \E r \in Reqs : RegistrationReturns(r)

Spec == Init /\ [][Next]_vars

\* ------------------------------------------------------------ one request
\* The process from its load to the end of the first request it receives:
\* what a handler computes from its own request is the same whatever else
\* the process has received.
FirstReq == CHOOSE r \in Reqs : \A o \in Reqs : r <= o

NextFirst ==
  \/ Startup
  \/ PlatformChange
  \/ UnifiedWebhookDelivery(FirstReq)
  \/ StubWebhookDelivery(FirstReq)
  \/ UninstalledWebhookDelivery(FirstReq)
  \/ PlainWebhookDelivery(FirstReq)
  \/ AuthRequest(FirstReq)
  \/ CallbackRequest(FirstReq)
  \/ TokenExchangeReturns(FirstReq)
  \/ RegistrationReturns(FirstReq)

SpecFirst == Init /\ [][NextFirst]_vars

\* ---------------------------------------------------------- concurrent load
\* The same server under several requests in flight together.  Each request
\* is one of a few: a delivery of one body with its signature or without
\* one, a callback with all parameters signed or with a forged hmac, an
\* /auth for a shop domain.
ConcTopics == {"customers/redact", "app/uninstalled"}

ConcBody == <<"{\"a\":1}">>

ConcQuery(secret, sig) ==
  << <<"shop", ShopDomain>>, <<"code", "abc">>, <<"host", "aG9zdA">>, <<"hmac", sig>> >>

ConcInput(q) ==
  \/ /\ q.route = "/auth"
     /\ Get(q.query, "shop") = ShopDomain
  \/ /\ q.route = "/auth/callback"
     /\ Len(q.query) = 4
     /\ Rest(q.query) = Rest(ConcQuery(config.secret, Absent))
     /\ \E sig \in {Hex(Hmac(config.secret, OAuthMessage(ConcQuery(config.secret, Absent)))),
                     Hex(Hmac("guess", OAuthMessage(ConcQuery(config.secret, Absent))))} :
          q.query = ConcQuery(config.secret, sig)
  \/ /\ q.route \notin {"/auth", "/auth/callback", "/api/webhooks/customers/redact",
                         "/api/webhooks/shop/redact"}
     /\ q.topic \in ConcTopics
     /\ q.ctype = "application/json"
     /\ q.raw = ConcBody
     /\ q.hmac \in {Absent, Base64(Hmac(config.secret, ConcBody))}

InitConc ==
  /\ variant \in Variants
  /\ config \in Configs
  /\ proc = "starting"
  /\ platform = "up"
  /\ req = [r \in ConcReqs |-> NoReq]
  /\ pc = [r \in ConcReqs |-> "new"]
  /\ resp = [r \in ConcReqs |-> NoResp]
  /\ trace = [r \in ConcReqs |-> <<>>]
  /\ calls = [r \in ConcReqs |-> <<>>]
  /\ upstream = [r \in ConcReqs |-> NoUpstream]
  /\ token = [r \in ConcReqs |-> 0]

NextConc ==
  \/ Startup
  \/ PlatformChange
  \/ \E r \in ConcReqs : UnifiedWebhookDelivery(r) /\ ConcInput(req'[r])
  \/ \E r \in ConcReqs : StubWebhookDelivery(r) /\ ConcInput(req'[r])
  \/ \E r \in ConcReqs : UninstalledWebhookDelivery(r) /\ ConcInput(req'[r])
  \/ \E r \in ConcReqs : PlainWebhookDelivery(r) /\ ConcInput(req'[r])
  \/ \E r \in ConcReqs : AuthRequest(r) /\ ConcInput(req'[r])
  \/ \E r \in ConcReqs : CallbackRequest(r) /\ ConcInput(req'[r])
  \/ \E r \in ConcReqs : TokenExchangeReturns(r)
  \/ \E r \in ConcReqs : RegistrationReturns(r)

SpecConc == InitConc /\ [][NextConc]_vars

\* A handler suspended in an await is resumed once its fetch has settled: a
\* platform that is up again and again does answer the call, and the event
\* loop leaves no settled promise unserved.  Nothing makes a platform that
\* hangs answer, and the fetch calls set no timeout.
Fairness ==
  \A r \in Reqs :
    /\ SF_vars(TokenExchangeReturns(r))
    /\ SF_vars(RegistrationReturns(r))

SpecFair == Init /\ [][Next]_vars /\ Fairness

\* ---------------------------------------------------------------- claims
\* A request received on the unified endpoint of server.js.
OnUnified(r) ==
  variant = "server" /\ pc[r] # "new" /\ req[r].route = "/api/webhooks"

\* A request received on /auth/callback of server.js.
OnCallback(r) ==
  variant = "server" /\ pc[r] # "new" /\ req[r].route = "/auth/callback"

\* A request received on a webhook route of whichever server runs.
OnWebhookRoute(r) == pc[r] # "new" /\ req[r].route \notin {"/auth", "/auth/callback"}

\* The signature header is base64(HMAC-SHA256(secret, raw body)).
HeaderMatches(r) == req[r].hmac = Base64(Hmac(config.secret, req[r].raw))

\* The hmac parameter is hex(HMAC-SHA256(secret, sorted remaining parameters)).
ParamMatches(r) ==
  HmacOf(req[r].query) = Hex(Hmac(config.secret, OAuthMessage(req[r].query)))

Occurs(t, e) == \E i \in 1..Len(t) : t[i] = e

\* Every occurrence of a in t comes before every occurrence of b.
Precedes(t, a, b) ==
  \A i, j \in 1..Len(t) : (t[i] = a /\ t[j] = b) => i < j

Count(t, e) == Cardinality({i \in 1..Len(t) : t[i] = e})

CallsOfKind(r, k) == Cardinality({i \in 1..Len(calls[r]) : calls[r][i].kind = k})

\* C1: on the unified endpoint a delivery whose signature header is absent or
\* differs from base64(HMAC-SHA256(secret, raw body)) is answered 401, and
\* neither topic classification nor topic handling runs for it.
C1_RejectedUnauthenticated ==
  \A r \in Reqs :
    (OnUnified(r) /\ (req[r].hmac = Absent \/ ~HeaderMatches(r))) =>
      /\ resp[r] = Send(401, "Unauthorized")
      /\ ~Occurs(trace[r], "classify")
      /\ ~Occurs(trace[r], "handle_uninstalled")

\* C2: on the unified endpoint every delivery whose signature verifies is
\* answered 200, whatever the topic header is: a compliance topic,
\* app/uninstalled, another topic or none; and a delivery is answered 200
\* only if its signature verifies, so the status follows from the signature
\* alone.
C2_VerifiedIsAcknowledged ==
  \A r \in Reqs :
    /\ (OnUnified(r) /\ req[r].ctype = "application/json" /\ HeaderMatches(r)) =>
         /\ pc[r] = "done"
         /\ resp[r] = Send(200, "OK")
    /\ (OnUnified(r) /\ resp[r].status = 200) =>
         (req[r].ctype = "application/json" /\ HeaderMatches(r))

C2_Witness ==
  \E r \in Reqs :
    /\ OnUnified(r) /\ req[r].ctype = "application/json" /\ HeaderMatches(r)
    /\ req[r].topic = ""
    /\ resp[r].status = 200

\* C3: no webhook route of any server variant answers 200 unless the
\* signature header was verified against the raw body.
C3_NoUnverifiedAcknowledgment ==
  \A r \in Reqs :
    (OnWebhookRoute(r) /\ resp[r].status = 200) =>
      (HeaderMatches(r) /\ Occurs(trace[r], "verify"))

\* C4: a /auth/callback of server.js with shop and code present and an hmac
\* that is not the hex HMAC of the sorted remaining parameters (wrong value,
\* other length, or absent) is answered 401 and makes no outbound call.
C4_BadHmacIs401 ==
  \A r \in Reqs :
    (OnCallback(r) /\ ~Missing(req[r].query, "shop") /\ ~Missing(req[r].query, "code")
       /\ ~ParamMatches(r)) =>
      /\ resp[r] = Send(401, "Invalid OAuth HMAC")
      /\ calls[r] = <<>>

\* C5: a /auth/callback of server.js without shop or without code is answered
\* 400 and makes no outbound call, whatever its hmac parameter is.
C5_MissingParamsIs400 ==
  \A r \in Reqs :
    (OnCallback(r) /\ (Missing(req[r].query, "shop") \/ Missing(req[r].query, "code"))) =>
      /\ pc[r] = "done"
      /\ resp[r].status = 400
      /\ calls[r] = <<>>
      /\ ~Occurs(trace[r], "exchange_call") /\ ~Occurs(trace[r], "register_call")

C5_Witness ==
  \E r \in Reqs :
    /\ OnCallback(r)
    /\ Missing(req[r].query, "code") /\ ~Missing(req[r].query, "shop")
    /\ HmacOf(req[r].query) = Junk(3)
    /\ resp[r].status = 400

\* The token exchange of the request was answered, and it failed: the call
\* threw, or its response was not ok.
ExchangeFailed(r) ==
  /\ upstream[r].exchange.body # "pending"
  /\ (upstream[r].exchange.threw \/ ~upstream[r].exchange.ok)

\* The token exchange of the request was answered ok with a JSON object.
ExchangeSucceeded(r) ==
  /\ ~upstream[r].exchange.threw /\ upstream[r].exchange.ok
  /\ upstream[r].exchange.body \in {"token", "no_token"}

\* C6: in server.js a failed token exchange (response not ok, or the call
\* throws) makes /auth/callback answer 500, and registerWebhooks is never
\* invoked for the request.
C6_ExchangeFailureIs500 ==
  \A r \in Reqs :
    (OnCallback(r) /\ ExchangeFailed(r)) =>
      /\ pc[r] = "done"
      /\ resp[r].status = 500
      /\ ~Occurs(trace[r], "register_call")
      /\ CallsOfKind(r, "register") = 0

C6_Witness ==
  \E r \in Reqs :
    /\ OnCallback(r)
    /\ ~upstream[r].exchange.threw /\ ~upstream[r].exchange.ok
    /\ upstream[r].exchange.body = "no_token"
    /\ resp[r].status = 500

\* The platform-hosted admin URL of the shop of the request.
AdminUrl(r) ==
  <<"https://admin.shopify.com/store/", ShopReplace(Get(req[r].query, "shop")),
    "/apps/", config.apiKey>>

\* C7: in server.js, once the token exchange succeeded, the callback ends
\* with a 302 to the platform-hosted admin URL whether the registration call
\* returned ok, returned not ok or threw.
C7_RegistrationNeverAborts ==
  \A r \in Reqs :
    (OnCallback(r) /\ ExchangeSucceeded(r)) =>
      /\ pc[r] \in {"await_register", "done"}
      /\ pc[r] = "await_register" => resp[r] = NoResp
      /\ pc[r] = "done" =>
           /\ upstream[r].registration \in RegistrationOutcomes
           /\ resp[r].status = 302
           /\ resp[r].location = AdminUrl(r)
           /\ resp[r].location[1] = "https://admin.shopify.com/store/"

C7_Witness ==
  \E r \in Reqs :
    /\ OnCallback(r) /\ ExchangeSucceeded(r)
    /\ upstream[r].registration = "threw"
    /\ resp[r].status = 302

\* Position of a step of the callback in its fixed order; a throw has none.
StepRank(e) ==
  CASE e = "check_params" -> 1
    [] e = "verify" -> 2
    [] e = "exchange_call" -> 3
    [] e = "exchange_return" -> 4
    [] e = "register_call" -> 5
    [] e = "register_return" -> 6
    [] e = "respond" -> 7
    [] OTHER -> 0

\* C8: within one /auth/callback of server.js the steps occur in the order
\* verification, token exchange, registration, redirect, a step starting
\* only after the one before ended; the exchange is called at most once,
\* registration at most once and only after a successful exchange.
C8_CallbackOrder ==
  \A r \in Reqs :
    OnCallback(r) =>
      /\ \A i, j \in 1..Len(trace[r]) :
           (i < j /\ StepRank(trace[r][i]) # 0 /\ StepRank(trace[r][j]) # 0) =>
             StepRank(trace[r][i]) < StepRank(trace[r][j])
      /\ Occurs(trace[r], "exchange_call") =>
           (Occurs(trace[r], "verify") /\ ParamMatches(r))
      /\ Occurs(trace[r], "register_call") =>
           (Occurs(trace[r], "exchange_return") /\ ExchangeSucceeded(r))
      /\ Occurs(trace[r], "register_return") => Occurs(trace[r], "register_call")
      /\ resp[r].status = 302 => Occurs(trace[r], "register_return")
      /\ CallsOfKind(r, "exchange") = Count(trace[r], "exchange_call")
      /\ CallsOfKind(r, "register") = Count(trace[r], "register_call")
      /\ CallsOfKind(r, "exchange") <= 1
      /\ CallsOfKind(r, "register") <= 1

C8_Witness ==
  \E r \in Reqs :
    /\ OnCallback(r)
    /\ trace[r] = <<"check_params", "verify", "exchange_call", "exchange_return",
                    "register_call", "register_return", "respond">>
    /\ resp[r].status = 302

\* C9: within one delivery on the unified endpoint verification precedes
\* classification, which precedes the acknowledgment, which precedes every
\* topic-specific handling, the app/uninstalled handling included.
C9_HandlingAfterAcknowledgment ==
  \A r \in Reqs :
    OnUnified(r) =>
      /\ Precedes(trace[r], "verify", "classify")
      /\ Precedes(trace[r], "classify", "respond")
      /\ Precedes(trace[r], "respond", "handle_uninstalled")

\* C10: a verified delivery of a compliance topic is acknowledged 200 in the
\* step that receives it, with no outbound call or data operation started or
\* awaited before the response, also while the platform answers nothing.
C10_ComplianceAckIndependent ==
  \A r \in Reqs :
    (OnUnified(r) /\ req[r].topic \in ComplianceTopics
       /\ req[r].ctype = "application/json" /\ HeaderMatches(r)) =>
      /\ pc[r] = "done"
      /\ resp[r].status = 200
      /\ calls[r] = <<>>
      /\ trace[r] = <<"verify", "classify", "respond">>

C10_Witness ==
  \E r \in Reqs :
    /\ OnUnified(r) /\ req[r].topic = "shop/redact"
    /\ req[r].ctype = "application/json" /\ HeaderMatches(r)
    /\ platform = "hang"
    /\ resp[r].status = 200

\* The response of the unified endpoint to the same delivery sent without a
\* signature header.
MissingHeaderResponse(r) ==
  UnifiedWebhook(config.secret, Absent, req[r].topic,
                 ExpressText(req[r].ctype, req[r].raw)).resp

\* C11: the response to a delivery with a present but mismatched signature
\* is the same, in status and body, as the response to that delivery with
\* the signature header missing.
C11_RejectionsIndistinguishable ==
  \A r \in Reqs :
    (OnUnified(r) /\ ~Falsy(req[r].hmac) /\ ~HeaderMatches(r)) =>
      /\ resp[r].status = MissingHeaderResponse(r).status
      /\ resp[r].body = MissingHeaderResponse(r).body

\* A request received on GET /auth of server.js.
OnAuth(r) == variant = "server" /\ pc[r] # "new" /\ req[r].route = "/auth"

\* The shop value follows the platform's domain naming pattern
\* (<name>.myshopify.com).
ValidShopDomain(shop) == shop = ShopDomain

\* C12: GET /auth answers a shop value that is present but is no valid
\* platform shop domain with 400, and builds no redirect URL from it.
C12_MalformedShopIs400 ==
  \A r \in Reqs :
    (OnAuth(r) /\ ~Missing(req[r].query, "shop")
       /\ ~ValidShopDomain(Get(req[r].query, "shop"))) =>
      /\ resp[r].status = 400
      /\ resp[r].location = NoLocation
      /\ ~Occurs(trace[r], "build_url")

C14_RegistersUninstalledOnly ==
  /\ \A r \in Reqs : \A i \in 1..Len(calls[r]) :
       calls[r][i].kind = "register" =>
         /\ calls[r][i].topic = "app/uninstalled"
         /\ calls[r][i].topic \notin ComplianceTopics
         /\ Len(calls[r][i].address) = 2
         /\ calls[r][i].address[1] = config.host
         /\ calls[r][i].address[2] \in VerifiedRoutes(variant)
         /\ variant = "server" => calls[r][i].address[2] = "/api/webhooks"
  /\ \A r \in Reqs :
       (OnWebhookRoute(r) /\ req[r].route \in VerifiedRoutes(variant)
          /\ resp[r].status = 200) => HeaderMatches(r)

C14_Witness ==
  \E r \in Reqs :
    /\ OnCallback(r)
    /\ Len(calls[r]) = 2
    /\ calls[r][2].kind = "register"
    /\ calls[r][2].address = <<config.host, "/api/webhooks">>

\* The value the unified endpoint hands to update() for the request.
FedToHmac(r) == BodySeen(Pipeline(variant), req[r].ctype, req[r].raw)

\* C15: on the unified endpoint neither the JSON nor the urlencoded parser
\* runs on a delivery before its signature is verified, and the digest is
\* taken over the raw body as received: a JSON delivery is handed over as
\* its unparsed text, and it is classified exactly when the header is the
\* digest of that text.
C15_DigestOverRawBody ==
  \A r \in Reqs :
    OnUnified(r) =>
      /\ ~Occurs(Pipeline(variant), "json") /\ ~Occurs(Pipeline(variant), "urlencoded")
      /\ req[r].ctype = "application/json" =>
           /\ FedToHmac(r).isString
           /\ FedToHmac(r).text = req[r].raw
           /\ Occurs(trace[r], "classify") <=> HeaderMatches(r)
           /\ ~Occurs(trace[r], "throw")

C15_Witness ==
  \E r \in Reqs :
    /\ OnUnified(r) /\ req[r].ctype = "application/json"
    /\ req[r].raw = <<"{\"a\":1}">>
    /\ HeaderMatches(r)
    /\ Occurs(trace[r], "classify")

\* C16: the outbound calls carry a bounded timeout: a /auth/callback whose
\* token exchange or registration call is never answered still gets a
\* response eventually.
C16_CallbackEventuallyAnswered ==
  \A r \in Reqs :
    (variant = "server" /\ pc[r] \in {"await_token", "await_register"})
      ~> (resp[r] # NoResp)

\* C17: on the unified endpoint, two deliveries of the same verified payload
\* have the same outcome: both are answered 200 OK, both handlers take the
\* same steps (none skipped or added for the second), and neither starts an
\* outbound call or leaves anything behind for the other.
C17_RedeliverySameOutcome ==
  \A r1, r2 \in ConcReqs :
    ( /\ r1 # r2 /\ OnUnified(r1) /\ OnUnified(r2)
      /\ req[r1] = req[r2]
      /\ req[r1].ctype = "application/json" /\ HeaderMatches(r1) ) =>
      /\ resp[r1] = Send(200, "OK") /\ resp[r2] = Send(200, "OK")
      /\ trace[r1] = trace[r2]
      /\ Count(trace[r1], "respond") = 1
      /\ Count(trace[r1], "handle_uninstalled") <= 1
      /\ \A r \in {r1, r2} :
           calls[r] = <<>> /\ token[r] = 0 /\ upstream[r] = NoUpstream

C17_Witness ==
  \E r1, r2 \in ConcReqs :
    /\ r1 # r2 /\ OnUnified(r1) /\ OnUnified(r2)
    /\ req[r1] = req[r2] /\ HeaderMatches(r1)
    /\ req[r1].topic = "app/uninstalled"
    /\ Occurs(trace[r1], "handle_uninstalled")
    /\ Occurs(trace[r2], "handle_uninstalled")

\* The responses a request gets when it is the only one the process handles,
\* from what it carried and from what the platform answered to its own calls.
ResponseAlone(r) ==
  LET q == req[r]
      body == BodySeen(Pipeline(variant), q.ctype, q.raw)
  IN IF q.route = "/auth"
       THEN {AuthHandler(variant, config.apiKey, config.host, q.query).resp}
     ELSE IF q.route = "/auth/callback"
       THEN LET e == CallbackEntry(variant, config.secret, q.query)
            IN CASE e = "400" -> {Send(400, MissingParamsBody(variant))}
                 [] e = "401" -> {Send(401, InvalidHmacBody(variant))}
                 [] e = "throw" -> {ErrorResp, NoResp}
                 [] e = "exchange" ->
                      LET a == AfterExchange(variant, upstream[r].exchange)
                      IN CASE a = "catch" -> {Send(500, "OAuth failed")}
                           [] a = "not_ok" -> {Send(500, "Failed to exchange token")}
                           [] a = "register" ->
                                IF registerWebhooks(variant, upstream[r].registration) = "returns"
                                  THEN {Redirect(RedirectTarget(variant, config.apiKey, q.query))}
                                  ELSE {Send(500, "OAuth failed")}
     ELSE CASE variant = "server" ->
                 {UnifiedWebhook(config.secret, q.hmac, q.topic, body).resp}
            [] variant = "stub" -> {StubWebhook(q.route).resp}
            [] variant = "handshakeA" -> {UninstalledWebhook(config.secret, q.hmac, body).resp}
            [] variant = "handshakeB" -> {PlainWebhook(config.secret, q.hmac, body).resp}

\* C18: whatever other requests are in flight, a request that has ended got
\* a response it gets when handled alone, and every registration call it
\* sent carries the access token its own token exchange returned.
C18_RequestsIndependent ==
  \A r \in ConcReqs :
    /\ pc[r] \in {"done", "unanswered"} => resp[r] \in ResponseAlone(r)
    /\ \A i \in 1..Len(calls[r]) :
         calls[r][i].kind = "register" =>
           /\ calls[r][i].token = (IF upstream[r].exchange.body = "token" THEN r ELSE 0)
           /\ calls[r][i].token = token[r]
           /\ calls[r][i].shop = Get(req[r].query, "shop")

C18_Witness ==
  \E r1, r2 \in ConcReqs :
    /\ r1 # r2
    /\ pc[r1] = "await_register" /\ pc[r2] = "await_register"
    /\ token[r1] = r1 /\ token[r2] = r2
    /\ calls[r1][2].token = r1 /\ calls[r2][2].token = r2

\* A /auth/callback request received by whichever server runs.
OnAnyCallback(r) == pc[r] # "new" /\ req[r].route = "/auth/callback"

Reorderings ==
  [n \in UNION {{Len(b), Len(b) + 1} : b \in BaseQueries} |->
     {f \in [1..n -> 1..n] : \A i, j \in 1..n : i # j => f[i] # f[j]}]

Reordered(query, f) == [i \in 1..Len(query) |-> query[f[i]]]

\* C20: the verdict of verifyOAuthHmac does not depend on the order in which
\* the parameters arrive: for every reordering of a received query the
\* message (keys ascending, key=value joined with &, hmac left out) and the
\* verdict are those of the query as received, and the callback took the
\* path that verdict gives.
C20_OrderIndependent ==
  \A r \in Reqs :
    OnAnyCallback(r) =>
      LET query == req[r].query
          message == OAuthMessage(query)
          verdict == verifyOAuthHmac(config.secret, query)
          keys == Sort(ObjectKeys(Rest(query)))
      IN /\ \A f \in Reorderings[Len(query)] :
              /\ OAuthMessage(Reordered(query, f)) = message
              /\ verifyOAuthHmac(config.secret, Reordered(query, f)) = verdict
         /\ \A i, j \in 1..Len(keys) : i < j => KeyRank(keys[i]) < KeyRank(keys[j])
         /\ ~Occurs(keys, "hmac")
         /\ Occurs(trace[r], "exchange_call") => verdict = "true"

C20_Witness ==
  \E r \in Reqs :
    /\ variant = "server" /\ OnAnyCallback(r)
    /\ Len(req[r].query) = 4
    /\ req[r].query[1][1] = "shop" /\ req[r].query[2][1] = "code"
    /\ Occurs(trace[r], "exchange_call")

\* The value that follows the name of a parameter in a URL, <<>> when the
\* URL has no such parameter.
RECURSIVE UrlParam(_, _)
UrlParam(url, name) ==
  IF Len(url) < 2 THEN <<>>
  ELSE IF Head(url) = name THEN <<url[2]>>
  ELSE UrlParam(Tail(url), name)

\* C21: GET /auth with a valid shop redirects to the authorization page of
\* the platform with the client identifier, the scopes, the callback URL and
\* an anti-forgery token (a state parameter) in the URL, and the tokens of
\* two /auth requests differ.
C21_AuthEmbedsFreshToken ==
  /\ \A r \in Reqs :
       (OnAuth(r) /\ ValidShopDomain(Get(req[r].query, "shop"))) =>
         /\ resp[r].status = 302
         /\ UrlParam(resp[r].location, "?client_id=") = <<config.apiKey>>
         /\ UrlParam(resp[r].location, "&scope=") = <<Scopes>>
         /\ UrlParam(resp[r].location, "&redirect_uri=") # <<>>
         /\ UrlParam(resp[r].location, "&state=") # <<>>
  /\ \A r1, r2 \in Reqs :
       (r1 # r2 /\ OnAuth(r1) /\ OnAuth(r2)
          /\ resp[r1].status = 302 /\ resp[r2].status = 302) =>
         UrlParam(resp[r1].location, "&state=") # UrlParam(resp[r2].location, "&state=")

\* The webhook-body mode of server.js applied to a signature and a text.
BodyModeAccepts(sig, text) ==
  SignatureCheck(config.secret, sig, [isString |-> TRUE, text |-> text]) = "ok"

\* The OAuth-query mode applied to a signature and a parameter set.
QueryModeAccepts(sig, params) ==
  verifyOAuthHmac(config.secret, params \o << <<"hmac", sig>> >>) = "true"

\* C22: the two verification modes stay separate.  A delivery whose header
\* is a signature the OAuth-query mode accepts for a parameter set, and
\* whose body is the sorted key=value string of that set, is not
\* acknowledged; a callback whose hmac is a signature the webhook-body mode
\* accepts for the body equal to its key=value string does not reach the
\* token exchange.
C22_ModesSeparate ==
  \A r \in Reqs :
    /\ (OnUnified(r) /\ req[r].ctype = "application/json"
          /\ \E params \in BaseQueries :
               /\ OAuthMessage(params) = req[r].raw
               /\ QueryModeAccepts(req[r].hmac, params)) =>
         /\ resp[r].status # 200
         /\ ~Occurs(trace[r], "classify")
    /\ (OnCallback(r)
          /\ BodyModeAccepts(HmacOf(req[r].query), OAuthMessage(req[r].query))) =>
         /\ resp[r].status # 302
         /\ ~Occurs(trace[r], "exchange_call")
    /\ (OnCallback(r) /\ Occurs(trace[r], "exchange_call")) =>
         ~BodyModeAccepts(HmacOf(req[r].query), OAuthMessage(req[r].query))
    /\ (OnUnified(r) /\ resp[r].status = 200) =>
         \A params \in BaseQueries :
           OAuthMessage(params) = req[r].raw => ~QueryModeAccepts(req[r].hmac, params)

C22_Witness ==
  \E r \in Reqs :
    /\ OnUnified(r) /\ req[r].ctype = "application/json"
    /\ req[r].hmac = Hex(Hmac(config.secret, req[r].raw))
    /\ \E params \in BaseQueries :
         /\ ~Missing(params, "shop") /\ ~Missing(params, "code")
         /\ OAuthMessage(params) = req[r].raw
         /\ QueryModeAccepts(req[r].hmac, params)
    /\ resp[r] = Send(401, "Unauthorized")

\* C23: both verification modes compare the digest with the provided
\* signature in constant time: for a delivery, and for a callback, whose
\* signature has the length of the digest and reached the comparison, the
\* bytes the comparison reads are the same wherever the first differing byte
\* of a wrong signature lies.
C23_ConstantTimeComparison ==
  \A r \in Reqs :
    /\ (OnUnified(r) /\ req[r].ctype = "application/json"
          /\ req[r].hmac.len = Base64Len) =>
         \A d1, d2 \in 1..Base64Len : WebhookCompareCost(d1) = WebhookCompareCost(d2)
    /\ (OnCallback(r) /\ Occurs(trace[r], "verify")
          /\ HmacOf(req[r].query).len = HexLen) =>
         \A d1, d2 \in 1..HexLen : OAuthCompareCost(d1) = OAuthCompareCost(d2)

\* A /auth/callback of one of the two handshake servers whose token exchange
\* was answered with a response that is not ok.
HandshakeExchangeNotOk(r) ==
  /\ variant \in {"handshakeA", "handshakeB"}
  /\ OnAnyCallback(r)
  /\ upstream[r].exchange.body # "pending"
  /\ ~upstream[r].exchange.threw /\ ~upstream[r].exchange.ok

\* C24: in the handshake servers a token exchange answered with a non-ok
\* response ends the callback with a 500 and no registration call is made;
\* in particular none is made with an undefined access token.
C24_HandshakeNonOkIs500 ==
  \A r \in Reqs :
    HandshakeExchangeNotOk(r) =>
      /\ pc[r] = "done"
      /\ resp[r].status = 500
      /\ CallsOfKind(r, "register") = 0
      /\ \A i \in 1..Len(calls[r]) :
           calls[r][i].kind = "register" => calls[r][i].token # 0

\* C25: every POST to /api/webhooks of server.js is answered 200 or 401,
\* whatever its signature header, content type and body are; a delivery that
\* carries a signature header but whose body reaches the handler as a
\* non-string is answered 401.
C25_WebhookAnswers200Or401 ==
  \A r \in Reqs :
    OnUnified(r) =>
      /\ pc[r] = "done"
      /\ resp[r].status \in {200, 401}
      /\ (~Falsy(req[r].hmac) /\ ~ExpressText(req[r].ctype, req[r].raw).isString) =>
           resp[r] = Send(401, "Unauthorized")

\* A webhook delivery or a /auth/callback received by server.js.
HandledByServer(r) ==
  variant = "server" /\ pc[r] # "new" /\ req[r].route \in {"/api/webhooks", "/auth/callback"}

\* C26: each webhook delivery and each /auth/callback handled by server.js
\* gets exactly one response: a response is sent at most once, sending it is
\* the last step of the handler, and a handler that has ended has sent one.
C26_ExactlyOneResponse ==
  \A r \in Reqs :
    HandledByServer(r) =>
      /\ Count(trace[r], "respond") <= 1
      /\ Occurs(trace[r], "respond") <=> resp[r] # NoResp
      /\ Occurs(trace[r], "respond") =>
           /\ trace[r][Len(trace[r])] = "respond"
           /\ pc[r] = "done"
      /\ pc[r] \in {"done", "unanswered"} => Count(trace[r], "respond") = 1

====
